---- MODULE Spec2Model ----
(***************************************************************************)
(* Scene node (src/src/scene/node.rs) and the editor's orientation gizmo   *)
(* (src/editor/src/scene_viewer/gizmo.rs).                                 *)
(*                                                                         *)
(* A Node is a record of its twelve fields.  Handles are small integers,   *)
(* 0 being Handle::none().  Option<T> is a sequence of length at most one: *)
(* <<>> is None and <<x>> is Some(x).  Transform and Mat4 are opaque to    *)
(* Node, so they are drawn from two-element sets that hold the identity.   *)
(***************************************************************************)
EXTENDS Integers, Sequences, FiniteSets, TLC

VARIABLES
    node,       \* the node the node-level operations act on
    visitor,    \* the Visitor handed to Node::visit
    log,        \* the field visits of the last Node::visit, in order
    result,     \* what the last Node::visit returned: "Ok", "Err", or "None"
    op,         \* the last operation and its arguments
    written,    \* the node a writing Node::visit last serialised, as Option
    copies,     \* the nodes make_copy has produced from `node`
    edits,      \* number of setter calls made on the copies
    kres,       \* the last result of NodeKind::new, as Option
    graph,      \* the gizmo scene's graph: node name -> local/global transform
    hits,       \* what ray.aabb_intersection yields for each gizmo node
    click       \* what the last SceneGizmo::on_click read and returned, as Option

vars == <<node, visitor, log, result, op, written, copies, edits, kres,
          graph, hits, click>>

----------------------------------------------------------------------------
(* Bounds and value domains *)

MaxHandle == 2
MaxBody == 1
NumCopies == 2
MaxEdits == 2
MaxDist == 1

NONE == 0
Handles == 1..MaxHandle
NodeHandles == {NONE} \cup Handles
BodyHandles == 0..MaxBody
U8 == 0..255

Names == {"Node", "a"}
Transforms == {"identity", "t1"}
Mats == {"identity", "m1"}
Resources == {<<>>, <<"model">>}
Payloads == {"default", "custom"}

Injective(s) == \A i, j \in DOMAIN s : s[i] = s[j] => i = j
ChildLists ==
    UNION {{s \in [1..n -> Handles] : Injective(s)} : n \in 0..MaxHandle}

----------------------------------------------------------------------------
(* NodeKind *)

Variants == {"Base", "Light", "Camera", "Mesh", "ParticleSystem"}

Base == [variant |-> "Base", data |-> "default"]

NodeKinds ==
    {Base} \cup [variant : Variants \ {"Base"}, data : Payloads]

DefaultKind(v) == [variant |-> v, data |-> "default"]

NodeKindNewAcceptsFive(id) ==
    CASE id = 0 -> <<Base>>
      [] id = 1 -> <<DefaultKind("Light")>>
      [] id = 2 -> <<DefaultKind("Camera")>>
      [] id = 3 -> <<DefaultKind("Mesh")>>
      [] id = 4 -> <<DefaultKind("ParticleSystem")>>
      [] id = 5 -> <<Base>>
      [] OTHER -> <<>>

\* NodeKind::new: Some(kind) for Ok(kind), None for Err(_)
NodeKindNew(id) ==
    CASE id = 0 -> <<Base>>
      [] id = 1 -> <<DefaultKind("Light")>>
      [] id = 2 -> <<DefaultKind("Camera")>>
      [] id = 3 -> <<DefaultKind("Mesh")>>
      [] id = 4 -> <<DefaultKind("ParticleSystem")>>
      [] OTHER -> <<>>

\* NodeKind::id
NodeKindId(k) ==
    CASE k.variant = "Base" -> 0
      [] k.variant = "Light" -> 1
      [] k.variant = "Camera" -> 2
      [] k.variant = "Mesh" -> 3
      [] k.variant = "ParticleSystem" -> 4

\* impl Clone for NodeKind
NodeKindClone(k) ==
    CASE k.variant = "Base" -> Base
      [] k.variant = "Camera" -> [variant |-> "Camera", data |-> k.data]
      [] k.variant = "Light" -> [variant |-> "Light", data |-> k.data]
      [] k.variant = "Mesh" -> [variant |-> "Mesh", data |-> k.data]
      [] k.variant = "ParticleSystem" ->
            [variant |-> "ParticleSystem", data |-> k.data]

----------------------------------------------------------------------------
(* Node *)

\* impl Default for Node
NodeDefault ==
    [kind |-> Base,
     name |-> "",
     children |-> <<>>,
     parent |-> NONE,
     visibility |-> TRUE,
     global_visibility |-> TRUE,
     local_transform |-> "identity",
     global_transform |-> "identity",
     inv_bind_pose_transform |-> "identity",
     body |-> NONE,
     resource |-> <<>>,
     original |-> NONE]

\* Node::new
NodeNew(kind) ==
    [kind |-> kind,
     name |-> "Node",
     children |-> <<>>,
     parent |-> NONE,
     visibility |-> TRUE,
     global_visibility |-> TRUE,
     local_transform |-> "identity",
     global_transform |-> "identity",
     inv_bind_pose_transform |-> "identity",
     body |-> NONE,
     resource |-> <<>>,
     original |-> NONE]

\* Node::get_resource
GetResource(n) == IF n.resource = <<>> THEN <<>> ELSE <<n.resource[1]>>

MakeCopyKeepsLinks(n, original) ==
    [kind |-> NodeKindClone(n.kind),
     name |-> n.name,
     local_transform |-> n.local_transform,
     global_transform |-> n.global_transform,
     visibility |-> n.visibility,
     global_visibility |-> n.global_visibility,
     inv_bind_pose_transform |-> n.inv_bind_pose_transform,
     children |-> n.children,
     parent |-> n.parent,
     body |-> n.body,
     resource |-> GetResource(n),
     original |-> original]

MakeCopyDropsResource(n, original) ==
    [kind |-> NodeKindClone(n.kind),
     name |-> n.name,
     local_transform |-> n.local_transform,
     global_transform |-> n.global_transform,
     visibility |-> n.visibility,
     global_visibility |-> n.global_visibility,
     inv_bind_pose_transform |-> n.inv_bind_pose_transform,
     children |-> <<>>,
     parent |-> NONE,
     body |-> NONE,
     resource |-> <<>>,
     original |-> original]

\* Node::make_copy
MakeCopy(n, original) ==
    [kind |-> NodeKindClone(n.kind),
     name |-> n.name,
     local_transform |-> n.local_transform,
     global_transform |-> n.global_transform,
     visibility |-> n.visibility,
     global_visibility |-> n.global_visibility,
     inv_bind_pose_transform |-> n.inv_bind_pose_transform,
     children |-> <<>>,
     parent |-> NONE,
     body |-> NONE,
     resource |-> GetResource(n),
     original |-> original]

\* Node::set_original_handle
SetOriginalHandle(n, original) == [n EXCEPT !.original = original]

\* Node::set_body
SetBody(n, body) == [n EXCEPT !.body = body]

SetResourceAndOriginal(n, resource_handle) ==
    [n EXCEPT !.resource = <<resource_handle>>, !.original = 1]

\* Node::set_resource
SetResource(n, resource_handle) == [n EXCEPT !.resource = <<resource_handle>>]

\* Node::get_local_transform_mut, followed by an edit of the transform
SetLocalTransform(n, t) == [n EXCEPT !.local_transform = t]

\* Node::set_visibility
SetVisibility(n, visibility) == [n EXCEPT !.visibility = visibility]

\* Node::set_name
SetName(n, name) == [n EXCEPT !.name = name]

\* Node::set_inv_bind_pose_transform
SetInvBindPoseTransform(n, transform) ==
    [n EXCEPT !.inv_bind_pose_transform = transform]

\* The nodes a scene can hold: every field drawn from its domain.  The two
\* derived fields are as the constructors leave them.
NodeSet(originals) ==
    {[kind |-> k, name |-> nm, children |-> c, parent |-> p,
      visibility |-> v, global_visibility |-> TRUE,
      local_transform |-> t, global_transform |-> "identity",
      inv_bind_pose_transform |-> m, body |-> b, resource |-> r,
      original |-> o] :
        k \in NodeKinds, nm \in Names, c \in ChildLists, p \in NodeHandles,
        v \in BOOLEAN, t \in Transforms, m \in Mats, b \in BodyHandles,
        r \in Resources, o \in originals}

----------------------------------------------------------------------------
(* Visitor: the named-field read/write protocol Node::visit drives.       *)
(* A visitor is in reading or writing mode and holds one region, the one   *)
(* Node::visit enters, as a map from field key to Option of the value.     *)

FieldKeys ==
    {"KindId", "Kind", "Name", "Transform", "Visibility", "Parent",
     "Children", "Body", "Resource", "InvBindPoseTransform"}

\* Where a visitor call can return a VisitError
FailPoints == {"enter_region", "leave_region"} \cup FieldKeys

EmptyData == [k \in FieldKeys |-> <<>>]

\* Visitor::new: a writer that holds nothing yet
FreshWriter == [reading |-> FALSE, region |-> FALSE, data |-> EmptyData]

\* Visitor::is_reading
IsReading(v) == v.reading

\* Visitor::enter_region: Some(visitor) for Ok, None for Err.  A writer
\* creates the region, a reader needs it to be there.
VisitorEnterRegion(v) ==
    IF v.reading
    THEN IF v.region THEN <<v>> ELSE <<>>
    ELSE <<[v EXCEPT !.region = TRUE]>>

\* A field read by key: the stored value, the type's default when the key
\* is missing
VisitorRead(v, key, default) ==
    IF v.data[key] = <<>> THEN default ELSE v.data[key][1]

\* A field written by key
VisitorWrite(v, key, value) == [v EXCEPT !.data[key] = <<value>>]

\* Default::default() of the type of each field Node::visit reads
TypeDefault ==
    [name |-> "", local_transform |-> "identity", visibility |-> FALSE,
     parent |-> NONE, children |-> <<>>, body |-> NONE, resource |-> <<>>,
     inv_bind_pose_transform |-> "identity"]

----------------------------------------------------------------------------
(* impl Visit for Node.  The visit is a chain of steps over a record      *)
(* [node, visitor, log, res]; a step does nothing once res is "Err",       *)
(* which is what `?` does.  `fail` names the visitor call that returns a   *)
(* VisitError in this run ("none" when no call does).                     *)

Visited(st, key) ==
    Append(st.log, [field |-> key, kind |-> st.node.kind])

\* visitor.enter_region(name)?
EnterRegion(st, fail) ==
    LET r == VisitorEnterRegion(st.visitor) IN
    IF fail = "enter_region" \/ r = <<>>
    THEN [st EXCEPT !.res = "Err"]
    ELSE [st EXCEPT !.visitor = r[1]]

VisitKindIdKeepsKind(st, fail) ==
    IF st.res # "Ok" THEN st
    ELSE LET lg == Visited(st, "KindId")
             own == NodeKindId(st.node.kind)
         IN
         IF fail = "KindId" THEN [st EXCEPT !.log = lg, !.res = "Err"]
         ELSE IF IsReading(st.visitor)
         THEN [st EXCEPT !.log = lg]
         ELSE [st EXCEPT !.log = lg,
                         !.visitor = VisitorWrite(st.visitor, "KindId", own)]

VisitKindIdCoercesToBase(st, fail) ==
    IF st.res # "Ok" THEN st
    ELSE LET lg == Visited(st, "KindId")
             own == NodeKindId(st.node.kind)
         IN
         IF fail = "KindId" THEN [st EXCEPT !.log = lg, !.res = "Err"]
         ELSE IF IsReading(st.visitor)
         THEN LET kind_id == VisitorRead(st.visitor, "KindId", 0)
                  made == NodeKindNew(kind_id)
              IN IF made = <<>>
                 THEN [st EXCEPT !.log = lg, !.node.kind = Base]
                 ELSE [st EXCEPT !.log = lg, !.node.kind = made[1]]
         ELSE [st EXCEPT !.log = lg,
                         !.visitor = VisitorWrite(st.visitor, "KindId", own)]

\* let mut kind_id = self.kind.id(); kind_id.visit("KindId", visitor)?;
\* if visitor.is_reading() { self.kind = NodeKind::new(kind_id)?; }
VisitKindId(st, fail) ==
    IF st.res # "Ok" THEN st
    ELSE LET lg == Visited(st, "KindId")
             own == NodeKindId(st.node.kind)
         IN
         IF fail = "KindId" THEN [st EXCEPT !.log = lg, !.res = "Err"]
         ELSE IF IsReading(st.visitor)
         THEN LET kind_id == VisitorRead(st.visitor, "KindId", 0)
                  made == NodeKindNew(kind_id)
              IN IF made = <<>>
                 THEN [st EXCEPT !.log = lg, !.res = "Err"]
                 ELSE [st EXCEPT !.log = lg, !.node.kind = made[1]]
         ELSE [st EXCEPT !.log = lg,
                         !.visitor = VisitorWrite(st.visitor, "KindId", own)]

\* self.kind.visit("Kind", visitor)?  (impl Visit for NodeKind): Base
\* returns Ok(()) without touching the visitor, every other variant visits
\* its payload under the name it is given.
VisitKind(st, fail) ==
    IF st.res # "Ok" THEN st
    ELSE LET lg == Visited(st, "Kind") IN
         IF st.node.kind.variant = "Base" THEN [st EXCEPT !.log = lg]
         ELSE IF fail = "Kind" THEN [st EXCEPT !.log = lg, !.res = "Err"]
         ELSE IF IsReading(st.visitor)
         THEN [st EXCEPT !.log = lg,
                         !.node.kind.data =
                             VisitorRead(st.visitor, "Kind", "default")]
         ELSE [st EXCEPT !.log = lg,
                         !.visitor = VisitorWrite(st.visitor, "Kind",
                                                  st.node.kind.data)]

VisitFieldIgnoresError(st, key, attr, fail) ==
    LET lg == Visited(st, key) IN
    IF fail = key THEN [st EXCEPT !.log = lg, !.res = "Err"]
    ELSE IF IsReading(st.visitor)
    THEN [st EXCEPT !.log = lg,
                    !.node[attr] =
                        VisitorRead(st.visitor, key, TypeDefault[attr])]
    ELSE [st EXCEPT !.log = lg,
                    !.visitor = VisitorWrite(st.visitor, key, st.node[attr])]

\* self.<attr>.visit(<key>, visitor)?
VisitField(st, key, attr, fail) ==
    IF st.res # "Ok" THEN st
    ELSE LET lg == Visited(st, key) IN
         IF fail = key THEN [st EXCEPT !.log = lg, !.res = "Err"]
         ELSE IF IsReading(st.visitor)
         THEN [st EXCEPT !.log = lg,
                         !.node[attr] =
                             VisitorRead(st.visitor, key, TypeDefault[attr])]
         ELSE [st EXCEPT !.log = lg,
                         !.visitor = VisitorWrite(st.visitor, key,
                                                  st.node[attr])]

\* visitor.leave_region()
LeaveRegion(st, fail) ==
    IF st.res # "Ok" THEN st
    ELSE IF fail = "leave_region" THEN [st EXCEPT !.res = "Err"] ELSE st

NodeVisitSkipsChildren(n, v, fail) ==
    LET s0 == [node |-> n, visitor |-> v, log |-> <<>>, res |-> "Ok"]
        s1 == EnterRegion(s0, fail)
        s2 == VisitKindId(s1, fail)
        s3 == VisitKind(s2, fail)
        s4 == VisitField(s3, "Name", "name", fail)
        s5 == VisitField(s4, "Transform", "local_transform", fail)
        s6 == VisitField(s5, "Visibility", "visibility", fail)
        s7 == VisitField(s6, "Parent", "parent", fail)
        s9 == VisitField(s7, "Body", "body", fail)
        s10 == VisitField(s9, "Resource", "resource", fail)
        s11 == VisitField(s10, "InvBindPoseTransform",
                          "inv_bind_pose_transform", fail)
    IN LeaveRegion(s11, fail)

\* Node::visit
NodeVisit(n, v, fail) ==
    LET s0 == [node |-> n, visitor |-> v, log |-> <<>>, res |-> "Ok"]
        s1 == EnterRegion(s0, fail)
        s2 == VisitKindId(s1, fail)
        s3 == VisitKind(s2, fail)
        s4 == VisitField(s3, "Name", "name", fail)
        s5 == VisitField(s4, "Transform", "local_transform", fail)
        s6 == VisitField(s5, "Visibility", "visibility", fail)
        s7 == VisitField(s6, "Parent", "parent", fail)
        s8 == VisitField(s7, "Children", "children", fail)
        s9 == VisitField(s8, "Body", "body", fail)
        s10 == VisitField(s9, "Resource", "resource", fail)
        s11 == VisitField(s10, "InvBindPoseTransform",
                          "inv_bind_pose_transform", fail)
    IN LeaveRegion(s11, fail)

----------------------------------------------------------------------------
(* Serialised nodes: what a reading visitor can be loaded with *)

\* The visitor a complete writing Node::visit of n leaves behind, loaded
\* again in reading mode
FileOf(n) ==
    [NodeVisit(n, FreshWriter, "none").visitor EXCEPT !.reading = TRUE]

\* The same file with another byte where the kind id is stored
WithKindId(f, id) == [f EXCEPT !.data["KindId"] = <<id>>]

BadKindIds == {5, 255}

\* Nodes of every kind that differ from a freshly constructed node in every
\* visited field
FileNodes ==
    {[NodeNew(k) EXCEPT !.name = "a",
                        !.children = <<MaxHandle, 1>>,
                        !.parent = MaxHandle,
                        !.visibility = FALSE,
                        !.local_transform = "t1",
                        !.inv_bind_pose_transform = "m1",
                        !.body = MaxBody,
                        !.resource = <<"model">>] : k \in NodeKinds}

Files ==
    {FileOf(n) : n \in FileNodes}
    \cup {WithKindId(FileOf(n), id) : n \in FileNodes, id \in BadKindIds}

\* Freshly constructed nodes, with and without a resource
LinkFiles ==
    {FileOf(NodeNew(k)) : k \in NodeKinds}
    \cup {FileOf(SetResource(NodeNew(k), "model")) : k \in NodeKinds}

\* Templates to instantiate: a node of each variant, with and without a
\* resource
TemplateKinds == {Base} \cup [variant : Variants \ {"Base"}, data : {"custom"}]

Templates ==
    {NodeNew(k) : k \in TemplateKinds}
    \cup {SetResource(NodeNew(k), "model") : k \in TemplateKinds}

----------------------------------------------------------------------------
(* Initial values of each group of variables *)

Operation(name, arg) == [name |-> name, arg |-> arg]

NodeIdle ==
    /\ node = NodeDefault
    /\ visitor = FreshWriter
    /\ log = <<>>
    /\ result = "None"
    /\ written = <<>>

CopiesIdle == copies = <<>> /\ edits = 0

KindIdle == kres = <<>>

nodeVars == <<node, visitor, log, result, written>>
copyVars == <<copies, edits>>
gizmoVars == <<graph, hits, click>>

----------------------------------------------------------------------------
(* Actions on NodeKind *)

\* NodeKind::new(id)
KindNew ==
    \E id \in U8 :
        /\ kres' = <<[id |-> id, res |-> NodeKindNew(id)]>>
        /\ op' = Operation("NodeKind::new", <<id>>)
        /\ UNCHANGED <<nodeVars, copyVars, gizmoVars>>

\* NodeKind::new(k.id())
KindFromId ==
    \E k \in NodeKinds :
        /\ kres' = <<[id |-> NodeKindId(k), res |-> NodeKindNew(NodeKindId(k))]>>
        /\ op' = Operation("NodeKind::id", <<k>>)
        /\ UNCHANGED <<nodeVars, copyVars, gizmoVars>>

----------------------------------------------------------------------------
(* Actions on one node.  log and result tell of the last visit of the     *)
(* node at hand, so a newly made node starts with none.                   *)

\* Node::default()
ConstructDefault ==
    /\ node' = NodeDefault
    /\ log' = <<>>
    /\ result' = "None"
    /\ op' = Operation("default", <<>>)
    /\ UNCHANGED <<visitor, written, copyVars, kres, gizmoVars>>

\* Node::new(kind)
ConstructNew ==
    \E k \in NodeKinds :
        /\ node' = NodeNew(k)
        /\ log' = <<>>
        /\ result' = "None"
        /\ op' = Operation("new", <<k>>)
        /\ UNCHANGED <<visitor, written, copyVars, kres, gizmoVars>>

\* node = node.make_copy(h)
CopySelf ==
    \E h \in NodeHandles :
        /\ node' = MakeCopy(node, h)
        /\ log' = <<>>
        /\ result' = "None"
        /\ op' = Operation("make_copy", <<h>>)
        /\ UNCHANGED <<visitor, written, copyVars, kres, gizmoVars>>

\* node.set_resource(model)
SetRes ==
    /\ node' = SetResource(node, "model")
    /\ op' = Operation("set_resource", <<"model">>)
    /\ UNCHANGED <<visitor, log, result, written, copyVars, kres, gizmoVars>>

\* node.set_original_handle(h)
SetOrig ==
    \E h \in NodeHandles :
        /\ node' = SetOriginalHandle(node, h)
        /\ op' = Operation("set_original_handle", <<h>>)
        /\ UNCHANGED <<visitor, log, result, written, copyVars, kres,
                       gizmoVars>>

\* A reading visitor is loaded with one of `files`
LoadFile(files) ==
    \E f \in files :
        /\ visitor' = f
        /\ written' = <<>>
        /\ op' = Operation("load", <<>>)
        /\ UNCHANGED <<node, log, result, copyVars, kres, gizmoVars>>

\* Visitor::new()
NewWriter ==
    /\ visitor' = FreshWriter
    /\ written' = <<>>
    /\ op' = Operation("Visitor::new", <<>>)
    /\ UNCHANGED <<node, log, result, copyVars, kres, gizmoVars>>

\* What a writer has written is loaded into a reading visitor
OpenForReading ==
    /\ ~IsReading(visitor)
    /\ written # <<>>
    /\ op.name = "visit"
    /\ visitor' = [visitor EXCEPT !.reading = TRUE]
    /\ op' = Operation("load", <<>>)
    /\ UNCHANGED <<node, log, result, written, copyVars, kres, gizmoVars>>

\* node.visit(name, visitor), a visitor call of `fails` returning an error.
\* A writer is written to once.
VisitNode(fails) ==
    \E fail \in fails :
        LET st == NodeVisit(node, visitor, fail) IN
        /\ IsReading(visitor) \/ visitor = FreshWriter
        /\ node' = st.node
        /\ visitor' = st.visitor
        /\ log' = st.log
        /\ result' = st.res
        /\ written' = IF IsReading(visitor) THEN written
                      ELSE IF st.res = "Ok" THEN <<node>> ELSE <<>>
        /\ op' = Operation("visit", <<fail>>)
        /\ UNCHANGED <<copyVars, kres, gizmoVars>>

----------------------------------------------------------------------------
(* Actions on the copies of a node *)

\* copy = node.make_copy(h)
CopyNode ==
    \E h \in NodeHandles :
        /\ copies' = <<MakeCopy(node, h)>>
        /\ op' = Operation("make_copy", <<h>>)
        /\ UNCHANGED <<nodeVars, edits, kres, gizmoVars>>

\* One more node.make_copy(h), with the h of the copies made so far
Instantiate ==
    \E h \in NodeHandles :
        /\ Len(copies) < NumCopies
        /\ edits = 0
        /\ copies # <<>> => h = copies[1].original
        /\ copies' = Append(copies, MakeCopy(node, h))
        /\ op' = Operation("make_copy", <<h>>)
        /\ UNCHANGED <<nodeVars, edits, kres, gizmoVars>>

\* A setter call on copy i
Edit(i, name, arg, edited) ==
    /\ edits < MaxEdits
    /\ copies' = [copies EXCEPT ![i] = edited]
    /\ edits' = edits + 1
    /\ op' = Operation(name, <<i, arg>>)
    /\ UNCHANGED <<nodeVars, kres, gizmoVars>>

CopySetName ==
    \E i \in DOMAIN copies, x \in Names :
        Edit(i, "set_name", x, SetName(copies[i], x))

CopySetVisibility ==
    \E i \in DOMAIN copies, x \in BOOLEAN :
        Edit(i, "set_visibility", x, SetVisibility(copies[i], x))

CopySetBody ==
    \E i \in DOMAIN copies, x \in BodyHandles :
        Edit(i, "set_body", x, SetBody(copies[i], x))

CopySetOriginalHandle ==
    \E i \in DOMAIN copies, x \in NodeHandles :
        Edit(i, "set_original_handle", x, SetOriginalHandle(copies[i], x))

CopySetInvBindPoseTransform ==
    \E i \in DOMAIN copies, x \in Mats :
        Edit(i, "set_inv_bind_pose_transform", x,
             SetInvBindPoseTransform(copies[i], x))

CopySetLocalTransform ==
    \E i \in DOMAIN copies, x \in Transforms :
        Edit(i, "get_local_transform_mut", x,
             SetLocalTransform(copies[i], x))

----------------------------------------------------------------------------
(* SceneGizmo.  A transform is a rotation by quarter turns and a position  *)
(* in the plane the rotation acts on; composing two of them is what the    *)
(* product of their matrices does.                                        *)

Rotations == 0..1

Identity == [rot |-> 0, pos |-> <<0, 0>>]

Rotate(r, p) ==
    CASE r = 0 -> p
      [] r = 1 -> <<0 - p[2], p[1]>>
      [] r = 2 -> <<0 - p[1], 0 - p[2]>>
      [] r = 3 -> <<p[2], 0 - p[1]>>

\* parent.global_transform * local_transform.matrix()
Compose(p, l) ==
    [rot |-> (p.rot + l.rot) % 4,
     pos |-> <<p.pos[1] + Rotate(p.rot, l.pos)[1],
               p.pos[2] + Rotate(p.rot, l.pos)[2]>>]

\* The order in which on_click queries the nodes
Query == <<"center", "pos_x", "neg_x", "pos_y", "neg_y", "pos_z", "neg_z">>

QueryNodes == {Query[i] : i \in DOMAIN Query}

Cones == QueryNodes \ {"center"}

GizmoNodes == QueryNodes \cup {"light", "camera_pivot", "camera_hinge", "camera"}

\* The hierarchy SceneGizmo::new builds with with_children
GizmoParent(n) ==
    CASE n \in Cones -> "center"
      [] n = "camera" -> "camera_hinge"
      [] n = "camera_hinge" -> "camera_pivot"
      [] OTHER -> "none"

\* The local transforms SceneGizmo::new gives the nodes: the camera is
\* placed at (0, 0, -3), every other node is left at the identity (a cone's
\* placement is baked into its surface data, not into its node)
GizmoLocal(n) ==
    IF n = "camera" THEN [rot |-> 0, pos |-> <<0, 0 - 3>>] ELSE Identity

RECURSIVE GlobalOf(_, _)
\* global_transform of n: the locals composed from the root down to n
GlobalOf(g, n) ==
    IF GizmoParent(n) = "none" THEN g[n].local
    ELSE Compose(GlobalOf(g, GizmoParent(n)), g[n].local)

\* Graph::update_hierarchical_data
UpdateHierarchicalData(g) ==
    [n \in GizmoNodes |-> [g[n] EXCEPT !.global = GlobalOf(g, n)]]

\* The graph SceneGizmo::new leaves behind
GizmoNew ==
    UpdateHierarchicalData(
        [n \in GizmoNodes |-> [local |-> GizmoLocal(n), global |-> Identity]])

SyncRotationsTurnsCenter(g, hinge_rotation, pivot_rotation) ==
    [g EXCEPT !["camera_hinge"].local.rot = hinge_rotation,
              !["camera_pivot"].local.rot = pivot_rotation,
              !["center"].local.rot = pivot_rotation]

\* SceneGizmo::sync_rotations, given the two rotations read from the
\* editor scene
SyncRotations(g, hinge_rotation, pivot_rotation) ==
    [g EXCEPT !["camera_hinge"].local.rot = hinge_rotation,
              !["camera_pivot"].local.rot = pivot_rotation]

\* f32::MAX: above every hit distance
F32Max == MaxDist + 1

Distances == 0..MaxDist

HitTables == [QueryNodes -> {<<>>} \cup {<<d>> : d \in Distances}]

CloserOrEqual(toi, min_toi) == toi <= min_toi

\* result.min < min_toi
Closer(toi, min_toi) == toi < min_toi

RECURSIVE Closest(_, _, _, _)
\* The loop of on_click from the i-th queried node on
Closest(h, i, closest, min_toi) ==
    IF i > Len(Query) THEN closest
    ELSE IF h[Query[i]] # <<>> /\ Closer(h[Query[i]][1], min_toi)
         THEN Closest(h, i + 1, Query[i], h[Query[i]][1])
         ELSE Closest(h, i + 1, closest, min_toi)

Degrees(pitch, yaw) == <<[pitch |-> pitch, yaw |-> yaw]>>

\* The if-chain that ends on_click, angles in degrees
CameraRotationOf(closest) ==
    CASE closest = "neg_x" -> Degrees(0, 0 - 90)
      [] closest = "pos_x" -> Degrees(0, 90)
      [] closest = "neg_y" -> Degrees(0 - 90, 0)
      [] closest = "pos_y" -> Degrees(90, 0)
      [] closest = "neg_z" -> Degrees(0, 0)
      [] closest = "pos_z" -> Degrees(0, 0 - 180)
      [] OTHER -> <<>>

GizmoIdle ==
    /\ graph = GizmoNew
    /\ hits = [n \in QueryNodes |-> <<>>]
    /\ click = <<>>

\* SceneGizmo::sync_rotations
SyncRotationsCall ==
    \E hinge_rotation \in Rotations, pivot_rotation \in Rotations :
        /\ graph' = SyncRotations(graph, hinge_rotation, pivot_rotation)
        /\ op' = Operation("sync_rotations", <<>>)
        /\ UNCHANGED <<nodeVars, copyVars, kres, hits, click>>

\* SceneGizmo::on_click
OnClick ==
    LET closest == Closest(hits, 1, "none", F32Max) IN
    /\ click' = <<[read |-> [n \in QueryNodes |-> graph[n].global],
                   closest |-> closest,
                   rotation |-> CameraRotationOf(closest)]>>
    /\ op' = Operation("on_click", <<>>)
    /\ UNCHANGED <<nodeVars, copyVars, kres, graph, hits>>

----------------------------------------------------------------------------
(* Specifications *)

Started == op = Operation("init", <<>>)

\* NodeKind::new and NodeKind::id over every u8 and every kind
InitKind == NodeIdle /\ CopiesIdle /\ KindIdle /\ GizmoIdle /\ Started
NextKind == KindNew \/ KindFromId
SpecKind == InitKind /\ [][NextKind]_vars

\* make_copy of any node a scene can hold
InitCopy ==
    /\ node \in NodeSet({NONE, MaxHandle})
    /\ visitor = FreshWriter /\ log = <<>> /\ result = "None" /\ written = <<>>
    /\ CopiesIdle /\ KindIdle /\ GizmoIdle /\ Started
NextCopy == CopyNode
SpecCopy == InitCopy /\ [][NextCopy]_vars

\* The operations that touch a node's resource and original handle
InitLink == NodeIdle /\ CopiesIdle /\ KindIdle /\ GizmoIdle /\ Started
NextLink ==
    \/ ConstructDefault
    \/ ConstructNew
    \/ CopySelf
    \/ SetRes
    \/ SetOrig
    \/ LoadFile(LinkFiles)
    \/ VisitNode({"none"})
SpecLink == InitLink /\ [][NextLink]_vars

\* A node is written, the writer's data is loaded, and a node reads it
InitRoundTrip ==
    /\ node \in NodeSet({NONE})
    /\ visitor = FreshWriter /\ log = <<>> /\ result = "None" /\ written = <<>>
    /\ CopiesIdle /\ KindIdle /\ GizmoIdle /\ Started
NextRoundTrip ==
    \/ VisitNode({"none"})
    \/ OpenForReading
    \/ ConstructDefault
SpecRoundTrip == InitRoundTrip /\ [][NextRoundTrip]_vars

\* Node::visit in both modes, with visitor calls that fail and with files
\* that hold an unknown kind id
InitVisit ==
    /\ node = NodeDefault
    /\ visitor \in Files
    /\ log = <<>> /\ result = "None" /\ written = <<>>
    /\ CopiesIdle /\ KindIdle /\ GizmoIdle /\ Started
NextVisit ==
    \/ ConstructDefault
    \/ ConstructNew
    \/ NewWriter
    \/ VisitNode({"none"} \cup FailPoints)
SpecVisit == InitVisit /\ [][NextVisit]_vars

\* Copies of one template, then edits of the copies
InitInstancing ==
    /\ node \in Templates
    /\ visitor = FreshWriter /\ log = <<>> /\ result = "None" /\ written = <<>>
    /\ CopiesIdle /\ KindIdle /\ GizmoIdle /\ Started
NextInstancing ==
    \/ Instantiate
    \/ CopySetName
    \/ CopySetVisibility
    \/ CopySetBody
    \/ CopySetOriginalHandle
    \/ CopySetInvBindPoseTransform
    \/ CopySetLocalTransform
SpecInstancing == InitInstancing /\ [][NextInstancing]_vars

\* The gizmo after new, under every outcome of the seven ray queries
InitGizmo ==
    /\ NodeIdle /\ CopiesIdle /\ KindIdle /\ Started
    /\ graph = GizmoNew
    /\ hits \in HitTables
    /\ click = <<>>
NextGizmo == SyncRotationsCall \/ OnClick
SpecGizmo == InitGizmo /\ [][NextGizmo]_vars

----------------------------------------------------------------------------
(* Properties *)

VariantOfId == <<"Base", "Light", "Camera", "Mesh", "ParticleSystem">>

\* The node field each key of Node::visit is visited into, in visit order
FieldOrder ==
    <<"KindId", "Kind", "Name", "Transform", "Visibility", "Parent",
      "Children", "Body", "Resource", "InvBindPoseTransform">>

AttrOf ==
    [KindId |-> "kind", Kind |-> "kind", Name |-> "name",
     Transform |-> "local_transform", Visibility |-> "visibility",
     Parent |-> "parent", Children |-> "children", Body |-> "body",
     Resource |-> "resource",
     InvBindPoseTransform |-> "inv_bind_pose_transform"]

\* C1: make_copy(h) returns a node with no children, no parent, no body,
\* original h, and the kind, name, local transform, visibility, inverse bind
\* pose matrix and resource of the node it copies.
MakeCopyContract ==
    copies # <<>> =>
        LET c == copies[1] IN
        /\ c.children = <<>>
        /\ c.parent = NONE
        /\ c.body = NONE
        /\ c.original = op.arg[1]
        /\ c.kind = node.kind
        /\ c.name = node.name
        /\ c.local_transform = node.local_transform
        /\ c.visibility = node.visibility
        /\ c.inv_bind_pose_transform = node.inv_bind_pose_transform
        /\ c.resource = node.resource

MakeCopyOfLinkedNode ==
    /\ copies # <<>>
    /\ node.children # <<>>
    /\ node.parent # NONE
    /\ node.body # NONE
    /\ node.resource # <<>>
    /\ node.original # NONE
    /\ node.kind.variant = "Mesh"
    /\ copies[1].original = NONE

\* C2, as claimed: in every reachable state a node's resource is present
\* if and only if its original handle is not the none handle.
ResourceIffOriginal == (node.resource # <<>>) <=> (node.original # NONE)

\* C2, amended: the constructors leave resource absent and original none,
\* and every later operation sets the two fields independently: make_copy(h)
\* keeps the source's resource and sets original to h, set_resource makes
\* the resource present and leaves original, set_original_handle sets
\* original and leaves the resource, and a successful reading visit sets the
\* resource to the stream's and leaves original.
LinkFieldsIndependent ==
    [][/\ op'.name \in {"default", "new"} =>
            node'.resource = <<>> /\ node'.original = NONE
       /\ op'.name = "make_copy" =>
            node'.resource = node.resource /\ node'.original = op'.arg[1]
       /\ op'.name = "set_resource" =>
            node'.resource # <<>> /\ node'.original = node.original
       /\ op'.name = "set_original_handle" =>
            node'.original = op'.arg[1] /\ node'.resource = node.resource
       /\ (op'.name = "visit" /\ IsReading(visitor) /\ result' = "Ok") =>
            /\ node'.resource = visitor.data["Resource"][1]
            /\ node'.original = node.original]_vars

ResourceWithoutOriginal ==
    /\ op.name = "set_resource"
    /\ node.resource # <<>>
    /\ node.original = NONE

\* C3: a node written by Node::visit and read back into a default
\* constructed node has the same kind id, name, local transform, visibility,
\* parent, children in order, body, resource and inverse bind pose matrix.
RoundTrip ==
    [][(/\ op'.name = "visit"
        /\ IsReading(visitor)
        /\ node = NodeDefault
        /\ written # <<>>
        /\ result' = "Ok") =>
            LET w == written[1] IN
            /\ NodeKindId(node'.kind) = NodeKindId(w.kind)
            /\ node'.name = w.name
            /\ node'.local_transform = w.local_transform
            /\ node'.visibility = w.visibility
            /\ node'.parent = w.parent
            /\ node'.children = w.children
            /\ node'.body = w.body
            /\ node'.resource = w.resource
            /\ node'.inv_bind_pose_transform = w.inv_bind_pose_transform]_vars

ReadBackOrderedChildren ==
    /\ op.name = "visit"
    /\ IsReading(visitor)
    /\ result = "Ok"
    /\ written # <<>>
    /\ written[1].children = <<2, 1>>
    /\ written[1].kind.variant = "Mesh"
    /\ written[1].resource # <<>>
    /\ written[1].parent # NONE
    /\ ~written[1].visibility
    /\ node.children = <<2, 1>>

\* C4: Node::visit visits KindId before Kind in both modes; a reading visit
\* holds the default variant of the stream's id when it visits Kind, and
\* after a successful read the node's kind id is the stream's.
KindIdBeforeKind ==
    op.name = "visit" =>
        /\ \A i \in DOMAIN log :
                log[i].field = "Kind" =>
                    \E j \in 1..(i - 1) : log[j].field = "KindId"
        /\ IsReading(visitor) =>
                \A i \in DOMAIN log :
                    log[i].field = "Kind" =>
                        log[i].kind =
                            [variant |->
                                VariantOfId[visitor.data["KindId"][1] + 1],
                             data |-> "default"]
        /\ (IsReading(visitor) /\ result = "Ok") =>
                NodeKindId(node.kind) = visitor.data["KindId"][1]

ReadReplacedOtherVariant ==
    /\ op.name = "visit"
    /\ IsReading(visitor)
    /\ result = "Ok"
    /\ log[1].kind = DefaultKind("Camera")
    /\ node.kind = [variant |-> "Mesh", data |-> "custom"]

\* C5: NodeKind::new(id) succeeds exactly for the ids 0..4, the result has
\* that id and the variant the id stands for, and NodeKind::new(k.id()) is
\* the variant of k.
NodeKindNewContract ==
    kres # <<>> =>
        LET id == kres[1].id
            r == kres[1].res
        IN
        /\ r # <<>> <=> id \in 0..4
        /\ r # <<>> =>
                NodeKindId(r[1]) = id /\ r[1].variant = VariantOfId[id + 1]
        /\ op.name = "NodeKind::id" =>
                r # <<>> /\ r[1].variant = op.arg[1].variant

NodeKindNewRejectsFive ==
    kres # <<>> /\ kres[1].id = 5 /\ kres[1].res = <<>>

\* C6: a reading Node::visit of a stream whose KindId is outside 0..4
\* returns an error and visits no field after KindId.
UnknownKindAborts ==
    (/\ op.name = "visit"
     /\ IsReading(visitor)
     /\ visitor.data["KindId"][1] \notin 0..4) =>
        /\ result = "Err"
        /\ \A i \in DOMAIN log : log[i].field = "KindId"

UnknownKindRead ==
    /\ op = Operation("visit", <<"none">>)
    /\ IsReading(visitor)
    /\ visitor.data["KindId"][1] = 255
    /\ result = "Err"
    /\ Len(log) = 1

\* Where a failing reading visit stops: 0 at enter_region, the position in
\* FieldOrder of the field visit that fails, one past the last for
\* leave_region
ErrorAt(v, fail) ==
    IF fail = "enter_region" \/ ~v.region THEN 0
    ELSE IF fail = "KindId" \/ NodeKindNew(v.data["KindId"][1]) = <<>> THEN 1
    ELSE IF fail = "leave_region" THEN Len(FieldOrder) + 1
    ELSE CHOOSE i \in DOMAIN FieldOrder : FieldOrder[i] = fail

\* C7, as claimed: a reading Node::visit that returns an error leaves every
\* field of the node as it was before the call.
FailedReadRestoresNode ==
    [][(op'.name = "visit" /\ IsReading(visitor) /\ result' = "Err") =>
            node' = node]_vars

\* C7, amended: a reading Node::visit that returns an error at a field
\* visit leaves every field that comes after the failing one as it was
\* before the call, and the fields visited before the failing one hold the
\* values read from the stream: the node is left partially populated.
FailedReadKeepsLaterFields ==
    [][(op'.name = "visit" /\ IsReading(visitor) /\ result' = "Err") =>
            LET at == ErrorAt(visitor, op'.arg[1]) IN
            \A q \in DOMAIN FieldOrder :
                /\ q > at =>
                        node'[AttrOf[FieldOrder[q]]] =
                            node[AttrOf[FieldOrder[q]]]
                /\ (2 < q /\ q < at) =>
                        node'[AttrOf[FieldOrder[q]]] =
                            visitor.data[FieldOrder[q]][1]]_vars

PartiallyPopulated ==
    /\ op = Operation("visit", <<"Parent">>)
    /\ IsReading(visitor)
    /\ result = "Err"
    /\ node.name = "a"
    /\ node.local_transform = "t1"
    /\ ~node.visibility
    /\ node.parent = NONE
    /\ node.children = <<>>
    /\ node.resource = <<>>

\* C8: every node.make_copy(h) adds a copy with original h and the
\* resource of node and leaves node and the earlier copies as they were,
\* and a setter call on one copy leaves node and every other copy as they
\* were.
CopiesIndependent ==
    [][/\ op'.name = "make_copy" =>
            /\ Len(copies') = Len(copies) + 1
            /\ copies'[Len(copies')].original = op'.arg[1]
            /\ copies'[Len(copies')].resource = node.resource
            /\ \A j \in DOMAIN copies :
                    /\ copies'[j] = copies[j]
                    /\ copies[j].original = op'.arg[1]
                    /\ copies[j].resource = node.resource
            /\ node' = node
       /\ op'.name \in {"set_name", "set_visibility", "set_body",
                        "set_original_handle",
                        "set_inv_bind_pose_transform",
                        "get_local_transform_mut"} =>
            /\ node' = node
            /\ Len(copies') = Len(copies)
            /\ \A j \in DOMAIN copies :
                    j # op'.arg[1] => copies'[j] = copies[j]]_vars

EditedOneOfTwoCopies ==
    /\ Len(copies) >= 2
    /\ edits > 0
    /\ node.resource # <<>>
    /\ node.name = "Node"
    /\ copies[1].name = "Node"
    /\ copies[2].name = "a"
    /\ copies[1].original # NONE
    /\ copies[2].original = NONE

\* The position of a node in the order on_click queries
QueryPos(n) == CHOOSE i \in DOMAIN Query : Query[i] = n

HitNodes == {n \in QueryNodes : hits[n] # <<>>}

\* n is hit, and every other hit node is farther, or as far and queried later
FirstClosest(n) ==
    /\ n \in HitNodes
    /\ \A m \in HitNodes \ {n} :
            \/ hits[n][1] < hits[m][1]
            \/ hits[n][1] = hits[m][1] /\ QueryPos(n) < QueryPos(m)

\* C9: on_click picks the hit node with the smallest distance, the first
\* queried among equals, returns the rotation of the picked cone, and
\* returns None when nothing is hit or center is picked.
ClosestHitFirstWins ==
    click # <<>> =>
        /\ \A n \in QueryNodes : FirstClosest(n) => click[1].closest = n
        /\ HitNodes = {} => click[1].closest = "none"
        /\ click[1].rotation = CameraRotationOf(click[1].closest)
        /\ click[1].rotation = <<>> <=> click[1].closest \in {"none", "center"}
        /\ \A n, m \in Cones :
                n # m => CameraRotationOf(n) # CameraRotationOf(m)

TieGoesToFirstQueried ==
    /\ click # <<>>
    /\ hits["center"] = <<1>>
    /\ hits["pos_x"] = <<>>
    /\ hits["neg_x"] = <<0>>
    /\ hits["pos_z"] = <<0>>
    /\ click[1].closest = "neg_x"
    /\ click[1].rotation = Degrees(0, 0 - 90)

\* C10: after new and any sync_rotations and on_click calls, the global
\* transform of center and of each cone is the one a propagation pass over
\* the present local transforms yields, and on_click read the value the
\* pass in new computed.
GizmoGlobalsNeverStale ==
    \A n \in QueryNodes :
        /\ graph[n].global = GlobalOf(graph, n)
        /\ click # <<>> => click[1].read[n] = GizmoNew[n].global

ClickAfterSync ==
    /\ op.name = "on_click"
    /\ graph["camera_pivot"].local.rot = 1
    /\ graph["camera_hinge"].local.rot = 1
    /\ graph["camera"].global # GlobalOf(graph, "camera")
    /\ click # <<>>
    /\ click[1].read["pos_x"] = Identity

====
